---- MODULE Spec2Model ----
(***************************************************************************)
(* Model of app.py: the rule-based scorer predict_disease, the upload      *)
(* handler index(), the report handler results() and the history() view.  *)
(*                                                                         *)
(* Python strings are sequences of one-character strings, so str.join and  *)
(* str.split are computed character by character.  A spreadsheet cell is a *)
(* tagged value: a number, NaN (an empty cell as pandas reads it) or a     *)
(* string.                                                                 *)
(***************************************************************************)
EXTENDS Integers, Sequences, FiniteSets, TLC

VARIABLES
    p_row,        \* predict_disease: the row it is applied to
    p_out,        \* predict_disease: what the call produced
    r_df,         \* results(): the 'Prediction' column of the frame read
    r_page,       \* results(): the ?page= argument of the request
    r_out,        \* results(): what the handler produced
    uploads,      \* index(): the files under UPLOAD_FOLDER
    predictions,  \* index(): the files under PREDICTIONS_FOLDER, with content
    history_file, \* index(): the lines of HISTORY_FILE
    req,          \* index(): the request being handled and its locals
    response,     \* what the last finished request returned
    served        \* number of POST requests accepted so far

vars == <<p_row, p_out, r_df, r_page, r_out,
          uploads, predictions, history_file, req, response, served>>

(***************************************************************************)
(* Bounds of the model.                                                    *)
(***************************************************************************)
MaxRows == 2        \* rows of an uploaded dataset
MaxUploads == 2     \* POST requests in one behaviour
MaxRecords == 21    \* records of a result set read by results()
MaxPattern == 2     \* length of the cell pattern a result set repeats
PageBound == 3      \* requested page numbers range over -PageBound..PageBound

(***************************************************************************)
(* Strings.                                                                *)
(***************************************************************************)
HeartDisease == <<"H","e","a","r","t"," ","D","i","s","e","a","s","e">>
Diabetes == <<"D","i","a","b","e","t","e","s">>
Asthma == <<"A","s","t","h","m","a">>
Hypertension == <<"H","y","p","e","r","t","e","n","s","i","o","n">>
NoneLabel == <<"N","o","n","e">>
JoinSep == <<",", " ">>
NanStr == <<"n","a","n">>

\* sep.join(parts)
RECURSIVE Join(_, _)
Join(parts, sep) ==
    IF parts = <<>> THEN <<>>
    ELSE IF Len(parts) = 1 THEN parts[1]
    ELSE parts[1] \o sep \o Join(Tail(parts), sep)

\* s[i:i+len(sep)] == sep, positions from 1
StartsAt(s, sep, i) ==
    /\ i + Len(sep) - 1 <= Len(s)
    /\ \A k \in 1..Len(sep) : s[i + k - 1] = sep[k]

\* s.split(sep): the leftmost separator is cut first; no separator gives [s]
RECURSIVE SplitFrom(_, _, _, _)
SplitFrom(s, sep, from, i) ==
    IF i + Len(sep) - 1 > Len(s)
    THEN <<SubSeq(s, from, Len(s))>>
    ELSE IF StartsAt(s, sep, i)
         THEN <<SubSeq(s, from, i - 1)>>
              \o SplitFrom(s, sep, i + Len(sep), i + Len(sep))
         ELSE SplitFrom(s, sep, from, i + 1)

Split(s, sep) == SplitFrom(s, sep, 1, 1)

(***************************************************************************)
(* Cell values.                                                            *)
(***************************************************************************)
Num(n) == [t |-> "num", v |-> n]
NaN == [t |-> "nan"]
Text(s) == [t |-> "str", v |-> s]

Columns == {"Age", "BMI", "Cholesterol", "Blood Pressure"}

\* row.get(key, 0) on a pandas Series: the default when the label is absent
Get(row, key) == IF key \in DOMAIN row THEN row[key] ELSE Num(0)

\* a > n and a < n for a cell a and an int n: a str operand raises TypeError,
\* NaN compares False
CmpRaises(a) == a.t = "str"
Gt(a, n) == a.t = "num" /\ a.v > n
Lt(a, n) == a.t = "num" /\ a.v < n

(***************************************************************************)
(* predict_disease(row).  The result is [exc |-> "TypeError"] when a       *)
(* comparison raises, [exc |-> "", value |-> string] when it returns.      *)
(* `a and b` evaluates b only when a is true.                              *)
(***************************************************************************)
HeartRuleMut(age, cholesterol) == Gt(age, 50) /\ Gt(cholesterol, 239)

HeartRule(age, cholesterol) == Gt(age, 50) /\ Gt(cholesterol, 240)

DiabetesRule(bmi) == Gt(bmi, 30)

AsthmaRule(age, bmi) == Lt(age, 30) /\ Lt(bmi, 18)

HypertensionRule(blood_pressure) == Gt(blood_pressure, 140)

predict_disease(row) ==
    LET age == Get(row, "Age")
        bmi == Get(row, "BMI")
        cholesterol == Get(row, "Cholesterol")
        blood_pressure == Get(row, "Blood Pressure")
        raises ==
            \/ CmpRaises(age)
            \/ (Gt(age, 50) /\ CmpRaises(cholesterol))
            \/ CmpRaises(bmi)
            \/ CmpRaises(blood_pressure)
        diseases ==
            (IF HeartRule(age, cholesterol) THEN <<HeartDisease>> ELSE <<>>)
            \o (IF DiabetesRule(bmi) THEN <<Diabetes>> ELSE <<>>)
            \o (IF AsthmaRule(age, bmi) THEN <<Asthma>> ELSE <<>>)
            \o (IF HypertensionRule(blood_pressure) THEN <<Hypertension>> ELSE <<>>)
    IN  IF raises THEN [exc |-> "TypeError"]
        ELSE [exc |-> "",
              value |-> IF diseases # <<>> THEN Join(diseases, JoinSep)
                        ELSE NoneLabel]

(***************************************************************************)
(* Specification SpecPredict: predict_disease applied to one row.          *)
(***************************************************************************)
AgeValues == {0, 22, 29, 30, 40, 50, 51, 55}
BMIValues == {0, 17, 18, 22, 28, 30, 31}
CholesterolValues == {0, 200, 240, 241, 250}
BloodPressureValues == {0, 120, 140, 141, 150}

NumbersOf(c) ==
    CASE c = "Age" -> AgeValues
      [] c = "BMI" -> BMIValues
      [] c = "Cholesterol" -> CholesterolValues
      [] c = "Blood Pressure" -> BloodPressureValues

\* what a cell of column c may hold
CellsOf(c) == {Num(n) : n \in NumbersOf(c)} \cup {NaN, Text(<<"a","b","c">>)}

\* a row of a sheet that has the columns cols
RowsOver(cols) == {r \in [cols -> UNION {CellsOf(c) : c \in Columns}] :
                      \A c \in cols : r[c] \in CellsOf(c)}

Rows == UNION {RowsOver(cols) : cols \in SUBSET Columns}

NoRow == [c \in {} |-> NaN]

PredictIdle == p_row = NoRow /\ p_out = [called |-> FALSE]

ResultsIdle == r_df = <<>> /\ r_page = [given |-> FALSE] /\ r_out = [done |-> FALSE]

NoRequest == [pc |-> "idle"]

IndexIdle ==
    /\ uploads = {}
    /\ predictions = <<>>
    /\ history_file = <<>>
    /\ req = NoRequest
    /\ response = [kind |-> "none"]
    /\ served = 0

InitPredict ==
    /\ p_row \in Rows
    /\ p_out = [called |-> FALSE]
    /\ ResultsIdle
    /\ IndexIdle

Predict ==
    /\ ~p_out.called
    /\ p_out' = [called |-> TRUE, res |-> predict_disease(p_row)]
    /\ UNCHANGED <<p_row, r_df, r_page, r_out,
                   uploads, predictions, history_file, req, response, served>>

NextPredict == Predict

SpecPredict == InitPredict /\ [][NextPredict]_vars

(***************************************************************************)
(* Claims about predict_disease.                                           *)
(***************************************************************************)
\* the rule table of the claim, read off the row's own cells: a column the
\* row does not have counts as 0, a cell that is not a number matches nothing
Above(row, c, n) ==
    IF c \in DOMAIN row THEN row[c].t = "num" /\ row[c].v > n ELSE 0 > n

Below(row, c, n) ==
    IF c \in DOMAIN row THEN row[c].t = "num" /\ row[c].v < n ELSE 0 < n

Matches(row, d) ==
    CASE d = HeartDisease -> Above(row, "Age", 50) /\ Above(row, "Cholesterol", 240)
      [] d = Diabetes -> Above(row, "BMI", 30)
      [] d = Asthma -> Below(row, "Age", 30) /\ Below(row, "BMI", 18)
      [] d = Hypertension -> Above(row, "Blood Pressure", 140)

FixedOrder == <<HeartDisease, Diabetes, Asthma, Hypertension>>

Scenario1 == [c \in Columns |->
                 CASE c = "Age" -> Num(55) [] c = "BMI" -> Num(28)
                   [] c = "Cholesterol" -> Num(250) [] c = "Blood Pressure" -> Num(150)]

Scenario2 == [c \in {"Age", "BMI"} |-> IF c = "Age" THEN Num(22) ELSE Num(17)]

Scenario3 == [c \in Columns |->
                 CASE c = "Age" -> Num(40) [] c = "BMI" -> Num(22)
                   [] c = "Cholesterol" -> Num(200) [] c = "Blood Pressure" -> Num(120)]

Returned == p_out.called /\ p_out.res.exc = ""

\* C1: whenever predict_disease returns a field for a row, the field is the
\* ", "-joined sequence of exactly the disease names whose rule matches the
\* row, in the order Heart Disease, Diabetes, Asthma, Hypertension; it is
\* "None" iff no rule matches; the three scenario rows give
\* "Heart Disease, Hypertension", "Asthma" and "None".
C1_RuleBasedField ==
    Returned =>
        LET v == p_out.res.value
            matched == SelectSeq(FixedOrder, LAMBDA d : Matches(p_row, d))
        IN  /\ (matched # <<>>) => v = Join(matched, JoinSep)
            /\ (v = NoneLabel) <=> (matched = <<>>)
            /\ \A d \in {HeartDisease, Diabetes, Asthma, Hypertension} :
                   (\E i \in DOMAIN Split(v, JoinSep) : Split(v, JoinSep)[i] = d)
                       <=> Matches(p_row, d)
            /\ p_row = Scenario1 =>
                   v = <<"H","e","a","r","t"," ","D","i","s","e","a","s","e",",",
                         " ","H","y","p","e","r","t","e","n","s","i","o","n">>
            /\ p_row = Scenario2 => v = <<"A","s","t","h","m","a">>
            /\ p_row = Scenario3 => v = <<"N","o","n","e">>

\* C1 witness: the first scenario row has been scored and matched two rules.
C1_Witness ==
    /\ Returned
    /\ p_row = Scenario1
    /\ Len(Split(p_out.res.value, JoinSep)) = 2

\* the row with column c set to 0
WithZero(row, c) ==
    [k \in DOMAIN row \cup {c} |-> IF k = c THEN Num(0) ELSE row[k]]

Missing(row, c) == c \notin DOMAIN row \/ row[c] = NaN

\* C7: a field that is missing from the row (the column is absent, or the
\* row's cell is empty) is scored as if it were 0.
C7_MissingIsZero ==
    p_out.called =>
        \A c \in Columns :
            Missing(p_row, c) => p_out.res = predict_disease(WithZero(p_row, c))

\* C7, the part the code keeps: a column absent from the row is scored as 0.
C7_AbsentColumnIsZero ==
    p_out.called =>
        \A c \in Columns :
            c \notin DOMAIN p_row => p_out.res = predict_disease(WithZero(p_row, c))

(***************************************************************************)
(* results(result_id): one page of the frame plus the label histogram.     *)
(* None is <<>> and a present number n is <<n>>.                           *)
(***************************************************************************)
per_page == 10

None == <<>>
Some(n) == <<n>>

\* int(request.args.get('page', 1)): the argument's text is a decimal
\* numeral (its value is kept) or something int() rejects with ValueError
PageArgs ==
    {[given |-> FALSE]}
    \cup {[given |-> TRUE, numeric |-> FALSE]}
    \cup {[given |-> TRUE, numeric |-> TRUE, value |-> n] : n \in (0 - PageBound)..PageBound}

PageRaises(arg) == arg.given /\ ~arg.numeric

PageOf(arg) == IF arg.given THEN arg.value ELSE 1

\* a bound i of a Python slice over n items: negative counts from the end,
\* then clamped into 0..n
SliceIndex(i, n) ==
    IF i < 0 THEN (IF i + n < 0 THEN 0 ELSE i + n)
    ELSE IF i > n THEN n ELSE i

\* df.iloc[start:end]
iloc(df, start, end) ==
    SubSeq(df, SliceIndex(start, Len(df)) + 1, SliceIndex(end, Len(df)))

paginated_data(df, page) ==
    LET start == (page - 1) * per_page
        end == start + per_page
    IN  iloc(df, start, end)

total_pagesMut(n) == n \div per_page

total_pages(n) == (n + per_page - 1) \div per_page

pagination(df, page) ==
    [current |-> page,
     total |-> total_pages(Len(df)),
     prev |-> IF page > 1 THEN Some(page - 1) ELSE None,
     next |-> IF page < total_pages(Len(df)) THEN Some(page + 1) ELSE None]

\* str(pred) of a 'Prediction' cell
StrOf(pred) == IF pred.t = "nan" THEN NanStr ELSE pred.v

TokensOfMut(pred) == <<Head(Split(StrOf(pred), JoinSep))>>

\* str(pred).split(', ')
TokensOf(pred) == Split(StrOf(pred), JoinSep)

InitialCounts ==
    [l \in {HeartDisease, Asthma, Diabetes, Hypertension, NoneLabel} |-> 0]

\* disease_counts[disease] += 1 for each token in turn; a token that is not
\* a key raises KeyError
RECURSIVE TallyMut(_, _)
TallyMut(counts, tokens) ==
    IF tokens = <<>> THEN [exc |-> "", counts |-> counts]
    ELSE IF Head(tokens) \notin DOMAIN counts
         THEN TallyMut(counts, Tail(tokens))
         ELSE TallyMut([counts EXCEPT ![Head(tokens)] = @ + 1], Tail(tokens))

RECURSIVE Tally(_, _)
Tally(counts, tokens) ==
    IF tokens = <<>> THEN [exc |-> "", counts |-> counts]
    ELSE IF Head(tokens) \notin DOMAIN counts
         THEN [exc |-> "KeyError"]
         ELSE Tally([counts EXCEPT ![Head(tokens)] = @ + 1], Tail(tokens))

\* the tokens of the whole column, in the order the two loops visit them
RECURSIVE AllTokens(_)
AllTokens(column) ==
    IF column = <<>> THEN <<>>
    ELSE TokensOf(Head(column)) \o AllTokens(Tail(column))

disease_counts(df) ==
    Tally(InitialCounts, AllTokens([i \in DOMAIN df |-> df[i].Prediction]))

\* the handler: an exception leaves it before render_template_string
results(df, arg) ==
    IF PageRaises(arg) THEN [done |-> TRUE, exc |-> "ValueError"]
    ELSE LET page == PageOf(arg)
             hist == disease_counts(df)
         IN  IF hist.exc # "" THEN [done |-> TRUE, exc |-> hist.exc]
             ELSE [done |-> TRUE, exc |-> "",
                   data |-> paginated_data(df, page),
                   pagination |-> pagination(df, page),
                   disease_counts |-> hist.counts]

(***************************************************************************)
(* Specification SpecResults: results() on one result set and one page     *)
(* argument.  A result set of n records repeats a pattern of cells; record *)
(* i keeps i in place of the row's input columns.                          *)
(***************************************************************************)
SampleLabelLists ==
    { <<NoneLabel>>,
      <<HeartDisease>>,
      <<HeartDisease, Hypertension>>,
      <<Diabetes>>,
      <<Asthma \o <<",">> \o Diabetes>> }

\* the cells of a 'Prediction' column, each with the labels it carries; an
\* empty cell is read as NaN, which str() turns into "nan"
CellSamples ==
    {[cell |-> Text(Join(t, JoinSep)), labels |-> t] : t \in SampleLabelLists}
    \cup {[cell |-> NaN, labels |-> <<NanStr>>]}

SampleCells == {c.cell : c \in CellSamples}

Patterns == UNION {[1..k -> SampleCells] : k \in 1..MaxPattern}

Frame(n, pat) ==
    [i \in 1..n |-> [row |-> i, Prediction |-> pat[((i - 1) % Len(pat)) + 1]]]

InitResults ==
    /\ \E n \in 0..MaxRecords, pat \in Patterns : r_df = Frame(n, pat)
    /\ r_page \in PageArgs
    /\ r_out = [done |-> FALSE]
    /\ PredictIdle
    /\ IndexIdle

Results ==
    /\ ~r_out.done
    /\ r_out' = results(r_df, r_page)
    /\ UNCHANGED <<p_row, p_out, r_df, r_page,
                   uploads, predictions, history_file, req, response, served>>

NextResults == Results

SpecResults == InitResults /\ [][NextResults]_vars

(***************************************************************************)
(* Claims about results().                                                 *)
(***************************************************************************)
KnownLabels == {HeartDisease, Asthma, Diabetes, Hypertension, NoneLabel}

\* the labels a cell of the column carries, from the table of cells
LabelsOf(cell) == (CHOOSE c \in CellSamples : c.cell = cell).labels

\* a well-formed categorical field: a joined sequence of known labels
WellFormed(cell) ==
    \A j \in DOMAIN LabelsOf(cell) : LabelsOf(cell)[j] \in KnownLabels

\* how many times label l occurs among the labels of the frame's records
Occurrences(df, l) ==
    Cardinality({ij \in (DOMAIN df) \X (1..2) :
                    /\ ij[2] <= Len(LabelsOf(df[ij[1]].Prediction))
                    /\ LabelsOf(df[ij[1]].Prediction)[ij[2]] = l})

RECURSIVE SumOver(_, _)
SumOver(f, S) ==
    IF S = {} THEN 0
    ELSE LET x == CHOOSE y \in S : TRUE IN f[x] + SumOver(f, S \ {x})

Rendered == r_out.done /\ r_out.exc = ""

HistogramSum == SumOver(r_out.disease_counts, DOMAIN r_out.disease_counts)

LabelTotal ==
    SumOver([i \in DOMAIN r_df |-> Len(LabelsOf(r_df[i].Prediction))], DOMAIN r_df)

AllWellFormed == \A i \in DOMAIN r_df : WellFormed(r_df[i].Prediction)

\* C2 as stated: when every record's field is well formed, the histogram
\* counts sum to the number of records.
C2_SumIsRecordCount ==
    (Rendered /\ AllWellFormed) => HistogramSum = Len(r_df)

\* C2 amended: when every record's field is well formed, the histogram
\* counts sum to the number of labels the records carry, a record with k
\* joined labels adding k; the sum is the number of records exactly when
\* every record carries one label.
C2_SumIsLabelCount ==
    (Rendered /\ AllWellFormed) =>
        /\ HistogramSum = LabelTotal
        /\ HistogramSum >= Len(r_df)
        /\ (HistogramSum = Len(r_df)) <=>
               (\A i \in DOMAIN r_df : Len(LabelsOf(r_df[i].Prediction)) = 1)

\* C2 witness: a rendered report over a well-formed set holding a record
\* with two labels, so that the sum exceeds the record count.
C2_Witness ==
    /\ Rendered
    /\ AllWellFormed
    /\ \E i \in DOMAIN r_df : Len(LabelsOf(r_df[i].Prediction)) = 2
    /\ HistogramSum > Len(r_df)

Max(a, b) == IF a > b THEN a ELSE b
Min(a, b) == IF a < b THEN a ELSE b

\* the records at positions [lo, hi) counted from 0, clipped to the frame
Window(df, lo, hi) ==
    [k \in 1..Max(0, Min(hi, Len(df)) - Max(lo, 0)) |-> df[Max(lo, 0) + k]]

\* the least t with t * per_page >= n
CeilPages(n) == CHOOSE t \in 0..n : t * per_page >= n /\ (t = 0 \/ (t - 1) * per_page < n)

\* C3: the page slice is the window [(page-1)*10, page*10) of the result
\* set clipped to its length, in order; for page in 1..total it has
\* min(10, len - (page-1)*10) records, beyond total it is empty.
C3_PageSliceIsWindow ==
    Rendered =>
        LET page == r_out.pagination.current
            total == CeilPages(Len(r_df))
        IN  /\ r_out.data = Window(r_df, (page - 1) * per_page, page * per_page)
            /\ page \in 1..total =>
                   Len(r_out.data) = Min(per_page, Len(r_df) - (page - 1) * per_page)
            /\ page > total => r_out.data = <<>>

\* C3 restricted to page numbers from 1 up, which the code satisfies.
C3_PageSliceFromOne ==
    (Rendered /\ r_out.pagination.current >= 1) => C3_PageSliceIsWindow

\* C4 as stated, for page numbers from 1 up: total = ceil(len/10); prev is
\* absent when page is 1 and page-1 otherwise; next is absent when page
\* equals total and page+1 otherwise.
C4_PrevNextAsStated ==
    (Rendered /\ r_out.pagination.current >= 1) =>
        LET pg == r_out.pagination
        IN  /\ pg.total = CeilPages(Len(r_df))
            /\ pg.prev = IF pg.current = 1 THEN None ELSE Some(pg.current - 1)
            /\ pg.next = IF pg.current = pg.total THEN None ELSE Some(pg.current + 1)

\* C4 amended: total = ceil(len/10); prev is absent when page is at most 1
\* and page-1 otherwise; next is absent when page is at least total and
\* page+1 otherwise.
C4_PrevNextClamped ==
    Rendered =>
        LET pg == r_out.pagination
        IN  /\ pg.total = CeilPages(Len(r_df))
            /\ pg.prev = IF pg.current <= 1 THEN None ELSE Some(pg.current - 1)
            /\ pg.next = IF pg.current >= pg.total THEN None ELSE Some(pg.current + 1)

\* C4 witness: the last page of a result set of several pages, and a report
\* whose last page is partly filled.
C4_Witness ==
    /\ Rendered
    /\ r_out.pagination.total = 3
    /\ r_out.pagination.current = 3
    /\ Len(r_df) % per_page # 0
    /\ r_out.pagination.next = None
    /\ r_out.pagination.prev = Some(2)

\* C9: when every token of every record is a known label the report holds a
\* count for each of the five known labels, equal to the number of tokens
\* that are that label (0 for a label no record carries); when some token is
\* not a known label the handler ends with KeyError and renders nothing.
C9_HistogramOrKeyError ==
    (r_out.done /\ ~PageRaises(r_page)) =>
        IF AllWellFormed
        THEN /\ r_out.exc = ""
             /\ DOMAIN r_out.disease_counts = KnownLabels
             /\ \A l \in KnownLabels :
                    r_out.disease_counts[l] = Occurrences(r_df, l)
        ELSE /\ r_out.exc = "KeyError"
             /\ DOMAIN r_out = {"done", "exc"}

\* C9 witness: a set with a known record followed by one whose token is
\* unknown ended in KeyError, and a set with a known label rendered counts.
C9_Witness ==
    /\ r_out.done
    /\ r_out.exc = "KeyError"
    /\ Len(r_df) >= 2
    /\ WellFormed(r_df[1].Prediction)
    /\ ~WellFormed(r_df[2].Prediction)

(***************************************************************************)
(* index(): the upload handler, one action per statement that touches the  *)
(* file system, and history().  Requests are handled one at a time.  The   *)
(* k-th accepted upload draws the uuid4 values 2k-1 (its file name) and 2k *)
(* (its history id): fresh values that never repeat.  The entry's          *)
(* timestamp is left out; nothing reads it.                                *)
(***************************************************************************)
\* str(uuid.uuid4()) + '.xlsx'
UploadName(k) == [uuid |-> 2 * k - 1, ext |-> ".xlsx"]

\* f'results_{filename}'
ResultName(filename) == [prefix |-> "results_", name |-> filename]

\* json.dumps(entry) + '\n' and json.loads(line)
json_dumps(entry) == [json |-> entry, eol |-> "\n"]
json_loads(line) == line.json

\* open(HISTORY_FILE, 'a') followed by f.write(line)
AppendLineMut(lines, line) == <<line>>

AppendLine(lines, line) == Append(lines, line)

Cell4(age, bmi, cholesterol, blood_pressure) ==
    [c \in Columns |->
        CASE c = "Age" -> age [] c = "BMI" -> bmi
          [] c = "Cholesterol" -> cholesterol [] c = "Blood Pressure" -> blood_pressure]

\* rows of an uploaded sheet with all four columns: one that matches two
\* rules, one with an empty Age cell, one with text in the Age cell
SampleRows ==
    { Scenario1,
      Cell4(NaN, Num(17), Num(200), Num(150)),
      Cell4(Text(<<"a","b","c">>), Num(22), Num(200), Num(120)) }

Datasets == UNION {[1..n -> SampleRows] : n \in 0..MaxRows}

\* what a client may post: a file the handler refuses by name, an .xlsx
\* name over bytes read_excel cannot read, or a workbook with a sheet
Uploadable ==
    {[xlsx |-> FALSE]}
    \cup {[xlsx |-> TRUE, readable |-> FALSE]}
    \cup {[xlsx |-> TRUE, readable |-> TRUE, rows |-> d] : d \in Datasets}

\* the except block: flash the error and redirect to the form
ErrorResponse(e) ==
    [kind |-> "redirect", to |-> "index", flash |-> "danger", error |-> e]

\* df.apply(predict_disease, axis=1): the first row that raises ends it
Applied(rows) == [i \in DOMAIN rows |-> predict_disease(rows[i])]

ApplyRaises(rows) == \E i \in DOMAIN rows : Applied(rows)[i].exc # ""

WithPrediction(rows) ==
    [i \in DOMAIN rows |-> [row |-> rows[i], Prediction |-> Text(Applied(rows)[i].value)]]

InitIndex ==
    /\ IndexIdle
    /\ PredictIdle
    /\ ResultsIdle

\* GET /
IndexGet ==
    /\ req.pc = "idle"
    /\ response' = [kind |-> "page", page |-> "index"]
    /\ UNCHANGED <<p_row, p_out, r_df, r_page, r_out,
                   uploads, predictions, history_file, req, served>>

\* POST / with a file the name check refuses
IndexPostRefused ==
    /\ req.pc = "idle"
    /\ \E file \in Uploadable :
        /\ ~file.xlsx
        /\ response' = [kind |-> "redirect", to |-> "index", flash |-> "danger",
                        error |-> "not xlsx"]
    /\ UNCHANGED <<p_row, p_out, r_df, r_page, r_out,
                   uploads, predictions, history_file, req, served>>

\* POST /: the name is accepted and file.save() stores the upload
IndexPostSave ==
    /\ req.pc = "idle"
    /\ served < MaxUploads
    /\ \E file \in Uploadable :
        /\ file.xlsx
        /\ served' = served + 1
        /\ uploads' = uploads \cup {UploadName(served')}
        /\ req' = [pc |-> "read_excel", file |-> file, filename |-> UploadName(served')]
    /\ UNCHANGED <<p_row, p_out, r_df, r_page, r_out,
                   predictions, history_file, response>>

\* df = pd.read_excel(...)
IndexReadExcel ==
    /\ req.pc = "read_excel"
    /\ \/ /\ req.file.readable
          /\ req' = [pc |-> "apply", file |-> req.file, filename |-> req.filename,
                     df |-> req.file.rows]
          /\ UNCHANGED response
       \/ /\ ~req.file.readable
          /\ req' = NoRequest
          /\ response' = ErrorResponse("read_excel")
    /\ UNCHANGED <<p_row, p_out, r_df, r_page, r_out,
                   uploads, predictions, history_file, served>>

\* df['Prediction'] = df.apply(predict_disease, axis=1)
IndexApply ==
    /\ req.pc = "apply"
    /\ \/ /\ ~ApplyRaises(req.df)
          /\ req' = [pc |-> "to_excel", file |-> req.file, filename |-> req.filename,
                     df |-> WithPrediction(req.df)]
          /\ UNCHANGED response
       \/ /\ ApplyRaises(req.df)
          /\ req' = NoRequest
          /\ response' = ErrorResponse("TypeError")
    /\ UNCHANGED <<p_row, p_out, r_df, r_page, r_out,
                   uploads, predictions, history_file, served>>

\* df.to_excel(os.path.join(PREDICTIONS_FOLDER, result_file)), or the write
\* fails
IndexToExcel ==
    /\ req.pc = "to_excel"
    /\ \/ /\ predictions' = (ResultName(req.filename) :> req.df) @@ predictions
          /\ req' = [pc |-> "history", file |-> req.file, filename |-> req.filename,
                     df |-> req.df, result_file |-> ResultName(req.filename)]
          /\ UNCHANGED response
       \/ /\ req' = NoRequest
          /\ response' = ErrorResponse("to_excel")
          /\ UNCHANGED predictions
    /\ UNCHANGED <<p_row, p_out, r_df, r_page, r_out,
                   uploads, history_file, served>>

history_entry(k, filename, result_file, df) ==
    [id |-> 2 * k, file |-> filename, result_file |-> result_file, rows |-> Len(df)]

\* with open(HISTORY_FILE, 'a') as f: f.write(...), or the open fails
IndexAppendHistory ==
    /\ req.pc = "history"
    /\ \/ /\ history_file' =
                 AppendLine(history_file,
                            json_dumps(history_entry(served, req.filename,
                                                     req.result_file, req.df)))
          /\ req' = [req EXCEPT !.pc = "return"]
          /\ UNCHANGED response
       \/ /\ req' = NoRequest
          /\ response' = ErrorResponse("open")
          /\ UNCHANGED history_file
    /\ UNCHANGED <<p_row, p_out, r_df, r_page, r_out,
                   uploads, predictions, served>>

\* flash('File processed successfully!'); redirect to the report
IndexReturn ==
    /\ req.pc = "return"
    /\ req' = NoRequest
    /\ response' = [kind |-> "redirect", to |-> "results", flash |-> "success",
                    result_id |-> req.result_file]
    /\ UNCHANGED <<p_row, p_out, r_df, r_page, r_out,
                   uploads, predictions, history_file, served>>

\* GET /history
History ==
    /\ req.pc = "idle"
    /\ response' = [kind |-> "page", page |-> "history",
                    history |-> [i \in DOMAIN history_file |-> json_loads(history_file[i])]]
    /\ UNCHANGED <<p_row, p_out, r_df, r_page, r_out,
                   uploads, predictions, history_file, req, served>>

Next ==
    \/ IndexGet
    \/ IndexPostRefused
    \/ IndexPostSave
    \/ IndexReadExcel
    \/ IndexApply
    \/ IndexToExcel
    \/ IndexAppendHistory
    \/ IndexReturn
    \/ History

Spec == InitIndex /\ [][Next]_vars

(***************************************************************************)
(* Claims about index() and the history log.                               *)
(***************************************************************************)
\* a configured maximum row count that some uploaded dataset exceeds by one
RowLimit == MaxRows - 1

Scored == req.pc \in {"to_excel", "history", "return"}

\* C5: a dataset with more rows than the configured maximum is rejected
\* before any row is scored: no request holds scored rows of such a
\* dataset, and no result file or history record exists for one.
C5_RowLimitEnforced ==
    /\ Scored => Len(req.file.rows) <= RowLimit
    /\ \A f \in DOMAIN predictions : Len(predictions[f]) <= RowLimit
    /\ \A i \in DOMAIN history_file : json_loads(history_file[i]).rows <= RowLimit

\* a row whose four cells are all numbers
Clean(row) == \A c \in Columns : c \in DOMAIN row /\ row[c].t = "num"

\* C6: a row with a required field that is absent or not a number never
\* aborts the batch: the prediction step of every read dataset ends with one
\* prediction per input row, in input order, and every row that has only
\* numbers keeps the prediction it gets on its own.
C6_BatchNeverAborted ==
    [][req.pc = "apply" =>
          /\ req'.pc = "to_excel"
          /\ Len(req'.df) = Len(req.file.rows)
          /\ \A i \in DOMAIN req'.df :
                 /\ req'.df[i].row = req.file.rows[i]
                 /\ Clean(req.file.rows[i]) =>
                        req'.df[i].Prediction =
                            Text(predict_disease(req.file.rows[i]).value)]_vars

\* C8: whenever no request is being handled, no uploaded input file is
\* left under the uploads folder.
C8_UploadDeleted == req.pc = "idle" => uploads = {}

EntryOf(lines, i) == json_loads(lines[i])

\* C10: the history log only grows, by one record at a time, and only in a
\* request that has already written the result file the record names; the
\* record carries the dataset's row count; a request that returns success
\* has exactly one record in the log and a request that returns an error
\* has none; records already in the log stay as they are and where they are.
C10_HistoryAppendOnly ==
    [][/\ \/ history_file' = history_file
          \/ /\ Len(history_file') = Len(history_file) + 1
             /\ SubSeq(history_file', 1, Len(history_file)) = history_file
             /\ req.pc = "history"
             /\ LET e == EntryOf(history_file', Len(history_file'))
                IN  /\ e.file = req.filename
                    /\ e.rows = Len(req.file.rows)
                    /\ e.result_file \in DOMAIN predictions
                    /\ \A i \in DOMAIN history_file :
                           EntryOf(history_file, i).file # e.file
       /\ (req.pc # "idle" /\ req'.pc = "idle") =>
              LET mine == {i \in DOMAIN history_file' :
                              EntryOf(history_file', i).file = req.filename}
              IN  IF response'.flash = "success"
                  THEN Cardinality(mine) = 1
                  ELSE mine = {}]_vars

\* C10 witness: two uploads were accepted, the first was logged, the second
\* ended in an error, and the log holds the first one's record alone.
C10_Witness ==
    /\ served = 2
    /\ req.pc = "idle"
    /\ response.kind = "redirect"
    /\ response.flash = "danger"
    /\ Len(history_file) = 1
    /\ EntryOf(history_file, 1).file = UploadName(1)
    /\ EntryOf(history_file, 1).rows = MaxRows

====
